---------------------------- MODULE Spec2Model ----------------------------
(***************************************************************************)
(* Model of backend/scripts/maintenance/cleanup-logs.py: the script reads  *)
(* one file, deletes the matches of a catalogue of regular expressions    *)
(* from the text, collapses runs of newlines and writes the text back.     *)
(*                                                                         *)
(* Text is a sequence of fragments; the text it stands for is the          *)
(* concatenation of the fragments.  A fragment is written as the text it   *)
(* holds, with a character outside ASCII written as the Python escape      *)
(* \uXXXX or \UXXXXXXXX and the byte 0xFF, which is not valid UTF-8, as    *)
(* \xff.  The fragments are chosen so that the literal text of a pattern   *)
(* occurs in a concatenation only as the fragments the pattern is written  *)
(* with: ");" is the only fragment holding ')' followed by ';', "\n" the   *)
(* only one holding a newline, and no fragment starts with ';' or with a   *)
(* digit except the digit fragments.                                       *)
(***************************************************************************)
EXTENDS Integers, Sequences, FiniteSets, TLC

VARIABLES
    exists,     \* there is something at file_path
    isdir,      \* what is at file_path is a directory
    fsize,      \* the size the device lets the file grow to, or NoLimit
    disk,       \* the bytes of the file at file_path, as fragments
    readable,   \* the process may open file_path for reading
    writable,   \* the process may open file_path for writing
    linesep,    \* os.linesep of the platform, as fragments
    pc,         \* the statement the script is at
    content,    \* the script's variable content (empty until it is bound)
    idx,        \* position of the for loop in logs_to_remove
    stdout,     \* the lines printed so far
    err,        \* the exception that ended the run, or NoError
    events,     \* history: the steps taken, in order
    orig,       \* history: what file_path held when the run began
    input,      \* history: content as it was read
    probe       \* history: the call the input was built around, or NoProbe

vars == <<exists, isdir, fsize, disk, readable, writable, linesep, pc, content, idx, stdout,
          err, events, orig, input, probe>>

NoError == "<none>"
NoProbe == <<>>
NoLimit == <<>>

NL      == "\n"
CR      == "\r"
BadByte == "\\xff"
CLOSE   == ");"

DigitsPlus == "[0-9]+"
DotLazy    == ".*?"
AnyLazy    == "[\\s\\S]*?"
Digit      == {"1", "3"}

(***************************************************************************)
(* logs_to_remove, lines 10-115.  A pattern is written as its parts in     *)
(* order: literal text without the regex escapes, [0-9]+, .*? or           *)
(* [\s\S]*?, and the closing \);                                           *)
(***************************************************************************)
logs_to_remove == <<
    <<"logger.info('\\U0001f50c INIT CONNECTION (v3)',", ".*?", ");">>,
    <<"logger.info('\\u2705 STARTING SESSION (v3)'", ");">>,
    <<"logger.info('\\u2705 AGENT LOADED (v3)',", ".*?", ");">>,
    <<"logger.info('\\u2705 INIT COMPLETE (v4)'", ");">>,
    <<"logger.info('\\U0001f3a4 Creating Deepgram streaming connection with VAD'", ");">>,
    <<"logger.info('\\u2705 Deepgram FINAL transcript',", ".*?", ");">>,
    <<"logger.debug('\\u23f3 Deepgram PARTIAL',", ".*?", ");">>,
    <<"logger.info('\\u2705 Deepgram streaming STT initialized'", ");">>,
    <<"logger.warn('\\u26a0\\ufe0f Deepgram not available - using batch STT (higher latency)'", ");">>,
    <<"logger.info('\\U0001f507 VAD: Speech ended - processing transcript'", ");">>,
    <<"logger.warn('\\u26a0\\ufe0f VAD: Speech ended but no transcript available'", ");">>,
    <<"logger.info('\\U0001f514 SILENCE (v4) - Deepgram ready',", "[\\s\\S]*?", ");">>,
    <<"logger.info('Exotel event',", "[\\s\\S]*?", ");">>,
    <<"logger.warn('Unknown Exotel event',", "[\\s\\S]*?", ");">>,
    <<"logger.info('Exotel stream started',", "[\\s\\S]*?", ");">>,
    <<"logger.warn('Media event received but no media data',", "[\\s\\S]*?", ");">>,
    <<"logger.info('Captured stream_sid from media event',", "[\\s\\S]*?", ");">>,
    <<"logger.debug('Ignoring outbound media track',", "[\\s\\S]*?", ");">>,
    <<"logger.info('\\U0001f3a4 SPEECH START (v3)',", "[\\s\\S]*?", ");">>,
    <<"logger.info('\\U0001f6d1 STOP (v3)',", ".*?", ");">>,
    <<"logger.info('\\u26a1 PROCESSING (v3)',", ".*?", ");">>,
    <<"logger.warn('\\u274c SKIP (v3)',", "[\\s\\S]*?", ");">>,
    <<"logger.info('\\u23f8\\ufe0f STOP HANDLED (v3) - waiting for AI response'", ");">>,
    <<"logger.info('\\u2705 MARK RECEIVED from Exotel (v13)',", "[\\s\\S]*?", ");">>,
    <<"logger.info('\\u2705 MARK SENT after greeting (v13)", ".*?", ");">>,
    <<"logger.warn('Failed to send mark message after greeting',", "[\\s\\S]*?", ");">>,
    <<"logger.info('\\u2705 MARK SENT after response (v", "[0-9]+", ")", ".*?", ");">>,
    <<"logger.warn('Failed to send mark message',", "[\\s\\S]*?", ");">>,
    <<"logger.info('\\U0001f3a4 GENERATING GREETING (v13)',", "[\\s\\S]*?", ");">>,
    <<"logger.info('\\u2705 GREETING AUDIO READY (v13)',", "[\\s\\S]*?", ");">>,
    <<"logger.info('\\u2705 GREETING SENT (v13)'", ");">>,
    <<"logger.info('\\u26a1 EARLY LLM START (v5 - Parallel)',", "[\\s\\S]*?", ");">>,
    <<"logger.info('\\U0001f680 EARLY LLM PROCESSING (v5)',", "[\\s\\S]*?", ");">>,
    <<"logger.info('\\u26a1 LLM streaming started (while user still speaking)'", ");">>,
    <<"logger.info('\\u26a1 Early LLM sentence ready',", ".*?", ");">>,
    <<"logger.info('\\u2705 Early LLM complete',", "[\\s\\S]*?", ");">>,
    <<"logger.info('\\u26a1 PROCESS FROM TRANSCRIPT (v5 - Parallel)',", "[\\s\\S]*?", ");">>,
    <<"logger.warn('\\u274c PROCESS ABORT (v5) - no transcript'", ");">>,
    <<"logger.info('\\u2705 Early LLM already processed (v5)',", "[\\s\\S]*?", ");">>,
    <<"logger.info('\\u26a1 PARALLEL PROCESSING COMPLETE - Response already sent!'", ");">>,
    <<"logger.info('\\U0001f464 USER (v", "[0-9]+", " - Streaming):',", ".*?", ");">>,
    <<"logger.info('\\U0001f464 USER (v", "[0-9]+", "):',", ".*?", ");">>,
    <<"logger.info('\\U0001f916 AI (v", "[0-9]+", " - Streaming):',", ".*?", ");">>,
    <<"logger.info('\\U0001f916 AI (v", "[0-9]+", "):',", ".*?", ");">>,
    <<"logger.info('\\U0001f51a END CALL PHRASE DETECTED',", "[\\s\\S]*?", ");">>,
    <<"logger.info('\\U0001f916 Building LLM prompt',", "[\\s\\S]*?", ");">>,
    <<"logger.debug('System prompt built',", "[\\s\\S]*?", ");">>,
    <<"logger.info('\\U0001f50d RAG: Query is relevant, searching knowledge base'", ");">>,
    <<"logger.info('\\u2705 RAG: Found relevant context',", "[\\s\\S]*?", ");">>,
    <<"logger.info('\\u26a0\\ufe0f RAG: No relevant context found'", ");">>,
    <<"logger.debug('RAG: Query not relevant for KB (conversational/greeting)'", ");">>,
    <<"logger.info('\\U0001f3a4 PROCESS START (v3)',", "[\\s\\S]*?", ");">>,
    <<"logger.warn('\\u274c PROCESS ABORT (v3) - no audio'", ");">>,
    <<"logger.info('\\U0001f399\\ufe0f TRANSCRIBING (v3)',", ".*?", ");">>,
    <<"logger.info('Using Deepgram for fast transcription'", ");">>,
    <<"logger.warn('\\u26a0\\ufe0f Deepgram returned empty transcript, falling back to Whisper'", ");">>,
    <<"logger.info('\\u2705 Whisper fallback result',", "[\\s\\S]*?", ");">>,
    <<"logger.info('Deepgram not available, falling back to Whisper'", ");">>,
    <<"logger.warn('\\u26a0\\ufe0f No speech detected in audio (both Deepgram and Whisper returned empty)'", ");">>,
    <<"logger.info('\\U0001f3a4 STREAMING TTS (v7)',", ".*?", ");">>,
    <<"logger.info('\\u2705 STREAMING TTS COMPLETE (v7)',", "[\\s\\S]*?", ");">>,
    <<"logger.warn('WebSocket not open, skipping chunk',", "[\\s\\S]*?", ");">>,
    <<"logger.warn('WebSocket not open, cannot flush buffer',", "[\\s\\S]*?", ");">>,
    <<"logger.debug('Flushed remaining audio',", "[\\s\\S]*?", ");">>,
    <<"logger.warn('WebSocket closed mid-stream, stopping audio transmission',", "[\\s\\S]*?", ");">>,
    <<"logger.info('\\U0001f3a4 SENDING FINAL MESSAGE (v13)',", ".*?", ");">>,
    <<"logger.info('\\u23f3 WAITING FOR FINAL MESSAGE (v13)',", "[\\s\\S]*?", ");">>,
    <<"logger.info('\\u2705 FINAL MESSAGE COMPLETE (v13)'", ");">>,
    <<"logger.info('\\U0001f50c DISCONNECTED (v4)',", ".*?", ");">>,
    <<"logger.info('Closing Deepgram streaming connection'", ");">>,
    <<"logger.info('\\u2705 Deepgram connection closed'", ");">>,
    <<"logger.info('\\u23f3 DELAY CLEANUP (v4) - 30s'", ");">>,
    <<"logger.info('\\U0001f5d1\\ufe0f DELETE SESSION (v4)'", ");">>
>>

NumPatterns == Len(logs_to_remove)

(***************************************************************************)
(* re.sub(pattern, '', content, flags=re.MULTILINE), line 119.             *)
(* MatchFrom(pat, j, s, i) is the position after the match of the parts    *)
(* pat[j..] against s from position i, found the way a backtracking        *)
(* matcher finds it, or 0 when there is none.  A literal part matches the  *)
(* equal fragment; [0-9]+ is greedy; .*? and [\s\S]*? are lazy, and '.'    *)
(* does not match a newline.  The flag re.MULTILINE changes only ^ and $,  *)
(* which no pattern uses.                                                  *)
(***************************************************************************)
RECURSIVE MatchFrom(_, _, _, _)
MatchFrom(pat, j, s, i) ==
    IF j > Len(pat) THEN i
    ELSE IF pat[j] = DigitsPlus THEN
        IF i <= Len(s) /\ s[i] \in Digit
        THEN LET more == MatchFrom(pat, j, s, i + 1)
             IN  IF more # 0 THEN more ELSE MatchFrom(pat, j + 1, s, i + 1)
        ELSE 0
    ELSE IF pat[j] \in {DotLazy, AnyLazy} THEN
        LET stop == MatchFrom(pat, j + 1, s, i)
        IN  IF stop # 0 THEN stop
            ELSE IF i <= Len(s) /\ (pat[j] = AnyLazy \/ s[i] # NL)
                 THEN MatchFrom(pat, j, s, i + 1)
                 ELSE 0
    ELSE IF i <= Len(s) /\ s[i] = pat[j]
         THEN MatchFrom(pat, j + 1, s, i + 1)
         ELSE 0

\* The position after the match of pat that starts at i, or 0.
MatchAt(pat, s, i) == MatchFrom(pat, 1, s, i)

\* Some match of pat in s.
Matches(pat, s) == \E i \in 1..Len(s) : MatchAt(pat, s, i) # 0

\* s from position i on with every match of pat deleted: matches are found
\* left to right and do not overlap.
RECURSIVE SubFrom(_, _, _)
SubFrom(pat, s, i) ==
    IF i > Len(s) THEN <<>>
    ELSE LET e == MatchAt(pat, s, i)
         IN  IF e # 0 THEN SubFrom(pat, s, e)
             ELSE <<s[i]>> \o SubFrom(pat, s, i + 1)

\* Sub with the newline that follows a match deleted with the match.
RECURSIVE SubLineFrom(_, _, _)
SubLineFrom(pat, s, i) ==
    IF i > Len(s) THEN <<>>
    ELSE LET e == MatchAt(pat, s, i)
         IN  IF e # 0
             THEN SubLineFrom(pat, s, IF e <= Len(s) /\ s[e] = NL
                                      THEN e + 1 ELSE e)
             ELSE <<s[i]>> \o SubLineFrom(pat, s, i + 1)
SubWithLineEnd(pat, s) == SubLineFrom(pat, s, 1)

Sub(pat, s) == SubFrom(pat, s, 1)

\* The for loop of lines 118-119 from pattern k on.  (Nothing is deleted
\* from the empty text: the test on Len(s) changes no result, and has s
\* evaluated before the next turn.)
RECURSIVE RemoveFrom(_, _)
RemoveFrom(k, s) ==
    IF k > NumPatterns \/ Len(s) = 0 THEN s
    ELSE RemoveFrom(k + 1, Sub(logs_to_remove[k], s))

RemoveLogs(s) == RemoveFrom(1, s)

(***************************************************************************)
(* re.sub(r'\n\n\n+', '\n\n', content), line 122: every maximal run of     *)
(* three or more newlines becomes two newlines.                            *)
(***************************************************************************)
\* Length of the run of newlines of s that starts at i.
RECURSIVE RunLen(_, _)
RunLen(s, i) ==
    IF i <= Len(s) /\ s[i] = NL THEN 1 + RunLen(s, i + 1) ELSE 0

RECURSIVE CollapseFrom(_, _)
CollapseFrom(s, i) ==
    IF i > Len(s) THEN <<>>
    ELSE LET n == RunLen(s, i)
         IN  IF n >= 3 THEN <<NL, NL>> \o CollapseFrom(s, i + n)
             ELSE <<s[i]>> \o CollapseFrom(s, i + 1)

\* CollapseNewlines with the pattern \n\n\n\n+ : runs of four or more.
RECURSIVE CollapseFourFrom(_, _)
CollapseFourFrom(s, i) ==
    IF i > Len(s) THEN <<>>
    ELSE LET n == RunLen(s, i)
         IN  IF n >= 4 THEN <<NL, NL>> \o CollapseFourFrom(s, i + n)
             ELSE <<s[i]>> \o CollapseFourFrom(s, i + 1)
CollapseFromFour(s) == CollapseFourFrom(s, 1)

CollapseNewlines(s) == CollapseFrom(s, 1)

\* Lines 118-122 as a function of the text.
Strip(s) == CollapseNewlines(RemoveLogs(s))

(***************************************************************************)
(* open(file_path, 'r', encoding='utf-8') and f.read(), lines 6-7: the     *)
(* bytes are decoded as UTF-8 and, newline being None, "\r\n" and "\r"     *)
(* are read as "\n".                                                       *)
(***************************************************************************)
Decodable(bytes) == \A i \in 1..Len(bytes) : bytes[i] # BadByte

RECURSIVE DecodeFrom(_, _)
DecodeFrom(bytes, i) ==
    IF i > Len(bytes) THEN <<>>
    ELSE IF bytes[i] = CR THEN
        <<NL>> \o DecodeFrom(bytes, IF i < Len(bytes) /\ bytes[i + 1] = NL
                                    THEN i + 2 ELSE i + 1)
    ELSE <<bytes[i]>> \o DecodeFrom(bytes, i + 1)

Decode(bytes) == DecodeFrom(bytes, 1)

(***************************************************************************)
(* f.write(content) on a file opened with 'w', lines 125-126: newline      *)
(* being None, every "\n" is written as os.linesep.                        *)
(***************************************************************************)
\* Encode for a file opened with newline='': "\n" is written as it is.
EncodeUntranslated(text, sep) == text

RECURSIVE Encode(_, _)
Encode(text, sep) ==
    IF text = <<>> THEN <<>>
    ELSE (IF Head(text) = NL THEN sep ELSE <<Head(text)>>)
         \o Encode(Tail(text), sep)

Posix == <<NL>>
Nt    == <<CR, NL>>

\* The five lines printed by lines 128-132.
Summary == <<
    "Cleaned up logs successfully!",
    "Removed verbose logs, kept only:",
    "  - Error logs (logger.error)",
    "  - Performance logs (PERFORMANCE)",
    "  - Critical operational logs" >>

(***************************************************************************)
(* The files the runs start from.                                          *)
(***************************************************************************)
MaxFileLen == 3    \* fragments of a file whose access rights and platform vary
MaxTextLen == 4    \* fragments of a text built from the text fragments
MaxLines   == 3    \* lines of a text built from whole lines
MaxRun     == 5    \* newlines of a run between two pieces of text
MaxFsize   == 2    \* fragments of the largest size limit that is tried

RECURSIVE SeqsUpTo(_, _)
SeqsUpTo(S, n) ==
    IF n = 0 THEN {<<>>}
    ELSE LET shorter == SeqsUpTo(S, n - 1)
         IN  shorter \cup {Append(s, x) : s \in shorter, x \in S}

RECURSIVE Flatten(_)
Flatten(ss) == IF ss = <<>> THEN <<>> ELSE Head(ss) \o Flatten(Tail(ss))

\* Heads of three calls of the catalogue: one without arguments, one whose
\* arguments end at the first ");" of the line, one whose arguments may
\* run over lines.
HeadPlain == logs_to_remove[2][1]
HeadDot   == logs_to_remove[3][1]
HeadAny   == logs_to_remove[13][1]

\* Text the script is meant to keep, and text it has no pattern for.
ERR   == "logger.error('boom'"
PERF  == "logger.debug('\\u23f1\\ufe0f PERF', 5"
ARG   == " { id: 1 }"
CB    == " { cb: () => { done("
CBEND == " } }"
SP    == "  "
STMT  == "const x = 1;"
QUOTE == "'"

FileFragments == {CR, NL, BadByte, HeadPlain, CLOSE}
Files == SeqsUpTo(FileFragments, MaxFileLen)

\* The limits on the size of the file: none, or a number of fragments.
Limits == {NoLimit} \cup {<<n>> : n \in 0..MaxFsize}

TextFragments == {NL, HeadPlain, HeadDot, HeadAny, CLOSE, ERR, PERF}
FreeTexts == SeqsUpTo(TextFragments, MaxTextLen)

\* Texts of whole lines, each ended by a newline.
LineShapes == {
    <<>>,
    <<HeadPlain, CLOSE>>,
    <<SP, HeadPlain, CLOSE>>,
    <<SP, HeadDot, ARG, CLOSE>>,
    <<SP, HeadAny, ARG>>,
    <<SP, ARG, CLOSE>>,
    <<SP, ERR, CLOSE>> }
LineTexts ==
    {Flatten([i \in 1..Len(ls) |-> Append(ls[i], NL)]) :
        ls \in SeqsUpTo(LineShapes, MaxLines)}

\* Texts with one run of newlines between two pieces.
RunTexts ==
    {pre \o [i \in 1..n |-> NL] \o post :
        pre \in {<<>>, <<ERR, CLOSE>>, <<HeadAny, ARG>>, <<HeadPlain, CLOSE>>},
        n \in 1..MaxRun,
        post \in {<<>>, <<CLOSE>>, <<PERF, CLOSE, NL>>, <<HeadPlain, CLOSE>>}}

\* The end-to-end scenario of the specification, section 8.
Scenario ==
    <<HeadDot, ARG, CLOSE, NL, ERR, CLOSE, NL, NL, NL, NL, PERF, CLOSE, NL>>

(***************************************************************************)
(* Texts holding exactly one call of the catalogue.  Call(k, d, a) is the  *)
(* call pattern k is written for, with digits d where the pattern has      *)
(* [0-9]+ and arguments a where it has .*? or [\s\S]*?.  The literal text  *)
(* of patterns 25 and 27 stops inside the message, so their calls close    *)
(* the quote before the arguments.                                         *)
(***************************************************************************)
Lazy == {DotLazy, AnyLazy}
HasTail(k) == \E j \in 1..Len(logs_to_remove[k]) : logs_to_remove[k][j] \in Lazy
HasDigits(k) ==
    \E j \in 1..Len(logs_to_remove[k]) : logs_to_remove[k][j] = DigitsPlus
OpenQuoted(k) ==
    \E j \in 2..Len(logs_to_remove[k]) :
        /\ logs_to_remove[k][j] \in Lazy
        /\ logs_to_remove[k][j - 1] \in {logs_to_remove[25][1], ")"}

Call(k, d, a) ==
    Flatten([j \in 1..Len(logs_to_remove[k]) |->
        LET part == logs_to_remove[k][j]
        IN  IF part = DigitsPlus THEN d
            ELSE IF part \in Lazy
                 THEN (IF OpenQuoted(k) THEN <<QUOTE>> ELSE <<>>) \o a
            ELSE <<part>>])

\* Arguments on one line and arguments wrapped over lines; the last of
\* each holds a statement of its own, closed by ");".
OneLineArgs == {<<>>, <<ARG>>, <<CB, CLOSE, CBEND>>}
WrappedArgs == {<<NL, SP, ARG, NL>>, <<ARG, NL, SP, ARG>>,
                <<NL, SP, CB, CLOSE, NL, SP, CBEND, NL>>}
Versions    == {<<"3">>, <<"1", "3">>}
Contexts ==
    { <<<<>>, <<>>>>,
      <<<<SP>>, <<NL>>>>,
      <<<<STMT, NL, SP>>, <<NL, SP, STMT, NL>>>>,
      <<<<ERR, CLOSE, NL>>, <<NL, NL, NL, PERF, CLOSE>>>> }

\* A probe is <<k, digits, arguments, text before, text after>>.
Probes ==
    {<<k, d, a, c[1], c[2]>> :
        k \in 1..NumPatterns, d \in Versions,
        a \in OneLineArgs \cup WrappedArgs, c \in Contexts}
ProbesUsed ==
    {p \in Probes :
        /\ HasDigits(p[1]) \/ p[2] = <<"3">>
        /\ HasTail(p[1]) \/ p[3] = <<>>}
ProbeText(p) == p[4] \o Call(p[1], p[2], p[3]) \o p[5]

Texts == FreeTexts \cup LineTexts \cup RunTexts \cup {Scenario}

\* A run starts with what is at file_path, the rights of the process on
\* it, the size the file may grow to and the platform's line separator as
\* they are; nothing is read yet.  The three families of files: short
\* files, or a directory, with every combination of rights and limit, on
\* either platform; longer texts; texts around one call of the catalogue.
EnvInit(sep) ==
    /\ exists \in BOOLEAN
    /\ isdir \in (IF exists THEN BOOLEAN ELSE {FALSE})
    /\ disk \in (IF exists /\ ~isdir THEN Files ELSE {<<>>})
    /\ readable \in (IF exists THEN BOOLEAN ELSE {FALSE})
    /\ writable \in (IF exists THEN BOOLEAN ELSE {FALSE})
    /\ fsize \in (IF exists /\ ~isdir THEN Limits ELSE {NoLimit})
    /\ linesep = sep
    /\ probe = NoProbe

Init ==
    /\ \/ EnvInit(Posix)
       \/ /\ exists = TRUE
          /\ isdir = FALSE
          /\ fsize = NoLimit
          /\ disk \in Texts
          /\ readable = TRUE
          /\ writable = TRUE
          /\ linesep = Posix
          /\ probe = NoProbe
       \/ /\ exists = TRUE
          /\ isdir = FALSE
          /\ fsize = NoLimit
          /\ probe \in ProbesUsed
          /\ disk = ProbeText(probe)
          /\ readable = TRUE
          /\ writable = TRUE
          /\ linesep = Posix
       \/ EnvInit(Nt)
    /\ pc = "open_r"
    /\ content = <<>>
    /\ idx = 1
    /\ stdout = <<>>
    /\ err = NoError
    /\ events = <<>>
    /\ orig = disk
    /\ input = <<>>

\* An exception nothing catches: the run ends there.
Raise(e) ==
    /\ pc' = "error"
    /\ err' = e

\* Line 6: open(file_path, 'r', encoding='utf-8').  A directory is
\* refused with IsADirectoryError on POSIX and PermissionError on Windows.
OpenRead ==
    /\ pc = "open_r"
    /\ events' = Append(events, <<"open_r">>)
    /\ IF ~exists THEN Raise("FileNotFoundError")
       ELSE IF ~readable THEN Raise("PermissionError")
       ELSE IF isdir
            THEN Raise(IF linesep = Posix THEN "IsADirectoryError"
                                          ELSE "PermissionError")
       ELSE pc' = "read" /\ err' = err
    /\ UNCHANGED <<exists, isdir, fsize,
                   disk, readable, writable, linesep, content, idx, stdout,
                   orig, input, probe>>

\* Line 7: content = f.read().
Read ==
    /\ pc = "read"
    /\ events' = Append(events, <<"read">>)
    /\ IF Decodable(disk)
       THEN /\ content' = Decode(disk)
            /\ input' = Decode(disk)
            /\ pc' = "loop"
            /\ err' = err
       ELSE /\ Raise("UnicodeDecodeError")
            /\ UNCHANGED <<content, input>>
    /\ UNCHANGED <<exists, isdir, fsize,
                   disk, readable, writable, linesep, idx, stdout, orig, probe>>

\* Substitute with the loop stopping one pattern early.
SubstituteOneShort ==
    /\ pc = "loop"
    /\ idx <= NumPatterns
    /\ content' = Sub(logs_to_remove[idx], content)
    /\ idx' = idx + 1
    /\ pc' = IF idx >= NumPatterns - 1 THEN "collapse" ELSE "loop"
    /\ events' = Append(events, <<"sub", idx>>)
    /\ UNCHANGED <<exists, isdir, fsize,
                   disk, readable, writable, linesep, stdout, err, orig,
                   input, probe>>

\* Lines 118-119: one turn of the loop.
Substitute ==
    /\ pc = "loop"
    /\ idx <= NumPatterns
    /\ content' = Sub(logs_to_remove[idx], content)
    /\ idx' = idx + 1
    /\ pc' = IF idx = NumPatterns THEN "collapse" ELSE "loop"
    /\ events' = Append(events, <<"sub", idx>>)
    /\ UNCHANGED <<exists, isdir, fsize,
                   disk, readable, writable, linesep, stdout, err, orig,
                   input, probe>>

\* Line 122.
Collapse ==
    /\ pc = "collapse"
    /\ content' = CollapseNewlines(content)
    /\ pc' = "open_w"
    /\ events' = Append(events, <<"collapse">>)
    /\ UNCHANGED <<exists, isdir, fsize,
                   disk, readable, writable, linesep, idx, stdout, err, orig,
                   input, probe>>

\* Line 125: open(file_path, 'w', encoding='utf-8') empties the file, or
\* fails and leaves it alone.
OpenWrite ==
    /\ pc = "open_w"
    /\ events' = Append(events, <<"open_w">>)
    /\ IF writable
       THEN /\ disk' = <<>>
            /\ pc' = "write"
            /\ err' = err
       ELSE /\ Raise("PermissionError")
            /\ disk' = disk
    /\ UNCHANGED <<exists, isdir, fsize,
                   readable, writable, linesep, content, idx, stdout, orig,
                   input, probe>>

\* Line 126 and the end of the with block: the text reaches the file.
\* When the device takes no more than fsize of it, what it took stays in
\* the file and the write ends with OSError.
Write ==
    /\ pc = "write"
    /\ events' = Append(events, <<"write">>)
    /\ LET bytes == Encode(content, linesep)
       IN  IF fsize = NoLimit \/ Len(bytes) <= fsize[1]
           THEN /\ disk' = bytes
                /\ pc' = "print"
                /\ err' = err
           ELSE /\ disk' = SubSeq(bytes, 1, fsize[1])
                /\ Raise("OSError")
    /\ UNCHANGED <<exists, isdir, fsize,
                   readable, writable, linesep, content, idx, stdout,
                   orig, input, probe>>

\* Lines 128-132.
PrintSummary ==
    /\ pc = "print"
    /\ stdout' = stdout \o Summary
    /\ pc' = "done"
    /\ events' = Append(events, <<"print">>)
    /\ UNCHANGED <<exists, isdir, fsize,
                   disk, readable, writable, linesep, content, idx, err, orig,
                   input, probe>>

Next ==
    \/ OpenRead
    \/ Read
    \/ Substitute
    \/ Collapse
    \/ OpenWrite
    \/ Write
    \/ PrintSummary

Spec == Init /\ [][Next]_vars

(***************************************************************************)
(* Vocabulary of the properties.                                           *)
(***************************************************************************)
Done == pc = "done"

Range(s) == {s[i] : i \in 1..Len(s)}

NoPatternMatches(s) ==
    \A k \in 1..NumPatterns : ~Matches(logs_to_remove[k], s)

\* s has n or more newlines in a row.
HasRun(s, n) == \E i \in 1..Len(s) : RunLen(s, i) >= n

\* s has a run of newlines that is exactly n long.
HasExactRun(s, n) ==
    \E i \in 1..Len(s) : RunLen(s, i) = n /\ (i = 1 \/ s[i - 1] # NL)

NLCount(s) == Cardinality({i \in 1..Len(s) : s[i] = NL})

\* The lengths of the runs of newlines of s, in order.
RECURSIVE RunsFrom(_, _)
RunsFrom(s, i) ==
    IF i > Len(s) THEN <<>>
    ELSE IF s[i] = NL
         THEN <<RunLen(s, i)>> \o RunsFrom(s, i + RunLen(s, i))
         ELSE RunsFrom(s, i + 1)
Runs(s) == RunsFrom(s, 1)

\* s with every run of newlines reduced to one newline.
RECURSIVE SqueezeFrom(_, _)
SqueezeFrom(s, i) ==
    IF i > Len(s) THEN <<>>
    ELSE IF s[i] = NL
         THEN <<NL>> \o SqueezeFrom(s, i + RunLen(s, i))
         ELSE <<s[i]>> \o SqueezeFrom(s, i + 1)
Squeeze(s) == SqueezeFrom(s, 1)

\* The length of the run of newlines that holds the j-th newline of s.
RECURSIVE RunStart(_, _)
RunStart(s, p) == IF p > 1 /\ s[p - 1] = NL THEN RunStart(s, p - 1) ELSE p
NLPos(s, j) ==
    CHOOSE p \in 1..Len(s) :
        s[p] = NL /\ Cardinality({q \in 1..p : s[q] = NL}) = j
RunAround(s, j) == RunLen(s, RunStart(s, NLPos(s, j)))

\* The pieces of s between its newlines, as text.split("\n") gives them.
RECURSIVE SplitFrom(_, _, _)
SplitFrom(s, i, cur) ==
    IF i > Len(s) THEN <<cur>>
    ELSE IF s[i] = NL THEN <<cur>> \o SplitFrom(s, i + 1, <<>>)
    ELSE SplitFrom(s, i + 1, Append(cur, s[i]))
Split(s) == SplitFrom(s, 1, <<>>)

\* The lines of s: the pieces, without the empty piece after a last newline.
LinesOf(s) ==
    LET ps == Split(s)
    IN  IF ps[Len(ps)] = <<>> THEN SubSeq(ps, 1, Len(ps) - 1) ELSE ps

\* A line that holds a logger.error call or a call marked with the stopwatch.
KeptLine(line) ==
    \E i \in 1..(Len(line) - 1) : line[i] \in {ERR, PERF} /\ line[i + 1] = CLOSE

\* A line of nothing but spaces.
Contentless(line) == \A i \in 1..Len(line) : line[i] = SP

\* A line that holds an indented call of the catalogue and nothing else.
IndentedCall(line) ==
    line \in {<<SP, HeadPlain, CLOSE>>, <<SP, HeadDot, ARG, CLOSE>>}

\* ls has n lines in a row that are indented calls.
HasIndentedCallRun(ls, n) ==
    \E i \in 1..(Len(ls) - n + 1) : \A j \in i..(i + n - 1) : IndentedCall(ls[j])

\* ls has n lines in a row without content.
HasContentlessRun(ls, n) ==
    \E i \in 1..(Len(ls) - n + 1) : \A j \in i..(i + n - 1) : Contentless(ls[j])

IsPrefix(s, t) == Len(s) <= Len(t) /\ SubSeq(t, 1, Len(s)) = s

\* The file has only the line endings the platform writes.
NativeEndings(bytes, sep) ==
    IF sep = Posix THEN \A i \in 1..Len(bytes) : bytes[i] # CR
    ELSE \A i \in 1..Len(bytes) :
            /\ bytes[i] = CR => (i < Len(bytes) /\ bytes[i + 1] = NL)
            /\ bytes[i] = NL => (i > 1 /\ bytes[i - 1] = CR)

\* The patterns applied in the given order of their indices.
RECURSIVE RemoveInOrder(_, _)
RemoveInOrder(order, s) ==
    IF order = <<>> \/ Len(s) = 0 THEN s
    ELSE RemoveInOrder(Tail(order), Sub(logs_to_remove[Head(order)], s))
ListOrder == [k \in 1..NumPatterns |-> k]
Reversed  == [k \in 1..NumPatterns |-> NumPatterns + 1 - k]

\* The steps of a whole run over n patterns.
StepsOfRun(n) ==
    <<<<"open_r">>, <<"read">>>> \o [k \in 1..n |-> <<"sub", k>>]
    \o <<<<"collapse">>, <<"open_w">>, <<"write">>, <<"print">>>>

(***************************************************************************)
(* C1, idempotence.  The text written by a run is left as it is by a       *)
(* second run: no pattern of the catalogue matches in it.                  *)
(***************************************************************************)
C1_Idempotent ==
    Done => (NoPatternMatches(content) /\ Strip(content) = content)

(***************************************************************************)
(* C2, preservation.  Every line of the text read that holds a             *)
(* logger.error call or a stopwatch-marked call is a line of the text      *)
(* written, unchanged.                                                     *)
(***************************************************************************)
C2_Preserved ==
    Done => \A l \in Range(LinesOf(input)) :
                KeptLine(l) => l \in Range(LinesOf(content))

(***************************************************************************)
(* C3, removal.  From a text that holds exactly one call of a pattern,     *)
(* with its arguments on one line or wrapped over lines, the whole call    *)
(* is deleted and nothing of it is left: what is written is the text       *)
(* around the call.                                                        *)
(***************************************************************************)
C3_RemovedWhole ==
    (Done /\ probe # NoProbe) =>
        content = CollapseNewlines(probe[4] \o probe[5])

(***************************************************************************)
(* C4, the end-to-end scenario.  The text written is the error line, one   *)
(* blank line and the debug line, and starts with logger.error.            *)
(***************************************************************************)
C4_Scenario ==
    (Done /\ input = Scenario) =>
        content = <<ERR, CLOSE, NL, NL, PERF, CLOSE, NL>>

\* C4 as amended: the newline that ended the line of the removed call
\* stays in front of the error line.
C4_ScenarioAmended ==
    (Done /\ input = Scenario) =>
        /\ content = <<NL, ERR, CLOSE, NL, NL, PERF, CLOSE, NL>>
        /\ disk = content

C4_Witness == Done /\ input = Scenario /\ orig = Scenario /\ Head(content) = NL

(***************************************************************************)
(* C5, blank-line collapse.  The text written has no three newlines in a   *)
(* row, and where the text read had four or more in a row it has exactly   *)
(* two.                                                                    *)
(***************************************************************************)
C5_Collapse ==
    Done => /\ ~HasRun(content, 3)
            /\ HasRun(input, 4) => HasExactRun(content, 2)

\* C5 as amended: the collapse acts on the text the substitutions leave.
\* Each of its runs of three or more newlines becomes two and nothing else
\* changes; a run of four or more newlines of the text read is part of such
\* a run when no removed match takes in a newline.
C5_CollapseAmended ==
    Done =>
        LET left == RemoveLogs(input)
        IN  /\ ~HasRun(content, 3)
            /\ Squeeze(content) = Squeeze(left)
            /\ Runs(content) =
                 [m \in 1..Len(Runs(left)) |->
                     IF Runs(left)[m] >= 3 THEN 2 ELSE Runs(left)[m]]
            /\ NLCount(left) = NLCount(input) =>
                 \A j \in 1..NLCount(input) :
                     RunAround(input, j) >= 4 => RunAround(left, j) >= 4

C5_Witness ==
    /\ Done
    /\ HasRun(input, 4)
    /\ RemoveLogs(input) # input
    /\ NLCount(RemoveLogs(input)) = NLCount(input)
    /\ HasExactRun(content, 2)
    /\ Len(content) > 2

(***************************************************************************)
(* C6, blank lines left by removal.  When the text read has no line        *)
(* without content and has three or more lines in a row that each hold     *)
(* only an indented call, the text written has no three lines without      *)
(* content in a row.                                                       *)
(***************************************************************************)
C6_NoBlankBlock ==
    (/\ Done
     /\ ~HasContentlessRun(LinesOf(input), 1)
     /\ HasIndentedCallRun(LinesOf(input), 3))
        => ~HasContentlessRun(LinesOf(content), 3)

(***************************************************************************)
(* C7, non-match safety.  When no pattern matches in the text read, the    *)
(* text written is that text with its runs of three or more newlines       *)
(* made two, and without such a run the file is left byte for byte.        *)
(***************************************************************************)
C7_NonMatch ==
    (Done /\ NoPatternMatches(input)) =>
        /\ content = CollapseNewlines(input)
        /\ ~HasRun(input, 3) => disk = orig

\* C7 as amended: without such a run the text written is the text read;
\* the bytes of the file are the same when its line endings are already
\* the ones the platform writes.
C7_NonMatchAmended ==
    (Done /\ NoPatternMatches(input)) =>
        /\ Squeeze(content) = Squeeze(input)
        /\ Runs(content) =
             [m \in 1..Len(Runs(input)) |->
                 IF Runs(input)[m] >= 3 THEN 2 ELSE Runs(input)[m]]
        /\ ~HasRun(input, 3) =>
             /\ content = input
             /\ NativeEndings(orig, linesep) => disk = orig

C7_Witness ==
    /\ Done
    /\ NoPatternMatches(input)
    /\ ~HasRun(input, 3)
    /\ NativeEndings(orig, linesep)
    /\ linesep = Nt
    /\ HeadPlain \in Range(orig)
    /\ NL \in Range(input)
    /\ disk = orig

(***************************************************************************)
(* C8, no partial write on error.  A run that ends with an exception       *)
(* leaves the file as it was, took no step twice and printed nothing.      *)
(***************************************************************************)
C8_NoPartialWrite ==
    pc = "error" =>
        /\ disk = orig
        /\ stdout = <<>>
        /\ \A i, j \in 1..Len(events) : events[i] = events[j] => i = j

(***************************************************************************)
(* C9, order independence.  Applying the patterns in another order over    *)
(* the evolving text gives the text the list order gives.                  *)
(***************************************************************************)
C9_OrderIndependent ==
    Done => \A order \in {ListOrder, Reversed} :
                CollapseNewlines(RemoveInOrder(order, input)) = content

(***************************************************************************)
(* C10, lifecycle.  A run that succeeds reads once, substitutes once per   *)
(* pattern in list order, 70 times, collapses once, writes once and then   *)
(* prints the summary; the file is not written before the last             *)
(* substitution and the collapse.                                          *)
(***************************************************************************)
C10_Lifecycle ==
    /\ IsPrefix(events, StepsOfRun(70))
    /\ Done => /\ events = StepsOfRun(70)
               /\ stdout = Summary

\* C10 as amended: the catalogue has 73 patterns, not 70.
C10_LifecycleAmended ==
    /\ IsPrefix(events, StepsOfRun(73))
    /\ disk # orig => <<"collapse">> \in Range(events)
    /\ stdout # <<>> => <<"write">> \in Range(events)
    /\ Done => /\ events = StepsOfRun(73)
               /\ disk = Encode(content, linesep)
               /\ stdout = Summary

C10_Witness ==
    /\ Done
    /\ Len(events) = 79
    /\ content # input
    /\ disk = content

=============================================================================
